---- MODULE Spec2Model ----
(***************************************************************************)
(* Model of airplane_ECS_modelling.py: the module globals c and l, the     *)
(* pandas display option the routine sets, and ModelECS, the one routine   *)
(* of the repository, taken statement by statement.                        *)
(*                                                                         *)
(* Python floats are modelled as exact rationals (a signed numerator and   *)
(* a positive denominator, both of arbitrary size and kept as sequences of *)
(* base-1000 limbs, least significant first), so every number the routine  *)
(* computes is the real number its expression denotes; floating-point      *)
(* rounding is not modelled.                                               *)
(***************************************************************************)
EXTENDS Integers, Sequences, FiniteSets, TLC

(***************************************************************************)
(* Arbitrary-size naturals: <<>> is 0, no leading (last) zero limb.        *)
(***************************************************************************)
BASE == 10 * 100

\* s without its leading (last) zero limbs
Strip(s) ==
    LET nz == {i \in 1..Len(s) : s[i] # 0}
    IN  IF nz = {} THEN <<>>
        ELSE SubSeq(s, 1, CHOOSE i \in nz : \A k \in nz : k <= i)

Limb(a, i) == IF 1 <= i /\ i <= Len(a) THEN a[i] ELSE 0

\* f as a table of values
Tabulate(f) == f @@ <<>>

\* every limb gives what exceeds BASE - 1 to the next limb, once
Pass(s) ==
    Tabulate([i \in 1..(Len(s) + 1) |-> (Limb(s, i) % BASE) + (Limb(s, i - 1) \div BASE)])

\* the carries of limbs that are at most BASE: limb i receives one when a
\* limb below it is BASE and every limb between the two is BASE - 1
Ripple(s) ==
    LET gen    == {j \in 1..Len(s) : s[j] = BASE}
        cin(i) == IF \E j \in gen : j < i /\ \A k \in (j + 1)..(i - 1) : s[k] = BASE - 1
                  THEN 1 ELSE 0
    IN  Strip([i \in 1..(Len(s) + 1) |-> (Limb(s, i) + cin(i)) % BASE])

\* the natural sum of s[i] * BASE^(i-1), limbs below 2^31: four passes
\* leave limbs of at most BASE
Carry(s) == Ripple(Pass(Pass(Pass(Pass(s)))))

NatOfInt(k) == Carry(<<k>>)

NatAdd(a, b) ==
    LET n == IF Len(a) >= Len(b) THEN Len(a) ELSE Len(b)
    IN  Carry([i \in 1..n |-> Limb(a, i) + Limb(b, i)])

\* -1, 0 or 1 as a < b, a = b or a > b
NatCmp(a, b) ==
    IF Len(a) < Len(b) THEN -1
    ELSE IF Len(a) > Len(b) THEN 1
    ELSE LET df == {i \in 1..Len(a) : a[i] # b[i]}
             hi == CHOOSE i \in df : \A k \in df : k <= i
         IN  IF df = {} THEN 0 ELSE IF a[hi] < b[hi] THEN -1 ELSE 1

\* a - b for a >= b: limb i lends one when a limb below it is short and
\* every limb between the two is level
NatSub(a, b) ==
    LET d(i)   == a[i] - Limb(b, i)
        short  == {j \in 1..Len(a) : d(j) < 0}
        bin(i) == IF \E j \in short : j < i /\ \A k \in (j + 1)..(i - 1) : d(k) = 0
                  THEN 1 ELSE 0
    IN  Strip([i \in 1..Len(a) |-> (d(i) - bin(i) + BASE) % BASE])

RECURSIVE ConvSum(_, _, _, _, _)
\* the sum of a[i] * b[k + 1 - i] for i in lo..hi
ConvSum(a, b, k, lo, hi) ==
    IF lo > hi THEN 0
    ELSE IF lo = hi THEN a[lo] * b[k + 1 - lo]
    ELSE LET mid == (lo + hi) \div 2
         IN  ConvSum(a, b, k, lo, mid) + ConvSum(a, b, k, mid + 1, hi)

NatMul(a, b) ==
    IF a = <<>> \/ b = <<>> THEN <<>>
    ELSE Carry([k \in 1..(Len(a) + Len(b) - 1) |->
                  ConvSum(a, b, k,
                          IF k + 1 - Len(b) > 1 THEN k + 1 - Len(b) ELSE 1,
                          IF k < Len(a) THEN k ELSE Len(a))])

(***************************************************************************)
(* Signed integers [neg, mag]; zero is never negative.                     *)
(***************************************************************************)
IntZero == [neg |-> FALSE, mag |-> <<>>]

IntMk(neg, mag) == [neg |-> neg /\ mag # <<>>, mag |-> mag]

IntOf(k) == IF k < 0 THEN IntMk(TRUE, NatOfInt(-k)) ELSE IntMk(FALSE, NatOfInt(k))

IntNeg(a) == IntMk(~a.neg, a.mag)

IntAdd(a, b) ==
    IF a.neg = b.neg THEN IntMk(a.neg, NatAdd(a.mag, b.mag))
    ELSE IF NatCmp(a.mag, b.mag) >= 0 THEN IntMk(a.neg, NatSub(a.mag, b.mag))
    ELSE IntMk(b.neg, NatSub(b.mag, a.mag))

IntSub(a, b) == IntAdd(a, IntNeg(b))

IntMul(a, b) == IntMk(a.neg # b.neg, NatMul(a.mag, b.mag))

IntIsZero(a) == a.mag = <<>>

\* -1, 0 or 1: the sign of a - b
IntCmp(a, b) ==
    IF a.neg /\ ~b.neg THEN -1
    ELSE IF ~a.neg /\ b.neg THEN 1
    ELSE IF a.neg THEN NatCmp(b.mag, a.mag)
    ELSE NatCmp(a.mag, b.mag)

(***************************************************************************)
(* Rationals [num, den], den > 0, not in lowest terms: compare with RatEq.  *)
(***************************************************************************)
\* how many low limbs of s are zero
LowZeros(s) ==
    IF s = <<>> THEN 0
    ELSE (CHOOSE i \in 1..Len(s) : s[i] # 0 /\ \A k \in 1..(i - 1) : s[k] = 0) - 1

\* num / den with its k low limbs dropped above and below
DropLow(num, den, k) ==
    [num |-> [neg |-> num.neg, mag |-> SubSeq(num.mag, k + 1, Len(num.mag))],
     den |-> SubSeq(den, k + 1, Len(den))]

\* num / den, the powers of BASE that both hold cancelled
RatMk(num, den) ==
    IF LowZeros(num.mag) <= LowZeros(den) THEN DropLow(num, den, LowZeros(num.mag))
    ELSE DropLow(num, den, LowZeros(den))

\* the rational p/q of two machine integers, q > 0
Frac(p, q) == RatMk(IntOf(p), NatOfInt(q))

RatOf(k) == Frac(k, 1)

RatNeg(a) == RatMk(IntNeg(a.num), a.den)

RatAdd(a, b) ==
    IF a.den = b.den THEN RatMk(IntAdd(a.num, b.num), a.den)
    ELSE RatMk(IntAdd(IntMul(a.num, IntMk(FALSE, b.den)),
                      IntMul(b.num, IntMk(FALSE, a.den))),
               NatMul(a.den, b.den))

RatSub(a, b) == RatAdd(a, RatNeg(b))

RatMul(a, b) == RatMk(IntMul(a.num, b.num), NatMul(a.den, b.den))

RatIsZero(a) == IntIsZero(a.num)

\* a / b for b # 0
RatDiv(a, b) ==
    RatMk(IntMk(a.num.neg # b.num.neg, NatMul(a.num.mag, b.den)),
          NatMul(a.den, b.num.mag))

RatCmp(a, b) ==
    IntCmp(IntMul(a.num, IntMk(FALSE, b.den)), IntMul(b.num, IntMk(FALSE, a.den)))

RatEq(a, b) == RatCmp(a, b) = 0

RatLt(a, b) == RatCmp(a, b) < 0

RatAbs(a) == RatMk(IntMk(FALSE, a.num.mag), a.den)

RECURSIVE DivDigit(_, _, _, _)
\* the largest q in lo..hi with q * b <= r, given lo * b <= r
DivDigit(r, b, lo, hi) ==
    IF lo = hi THEN lo
    ELSE IF NatCmp(NatMul(<<(lo + hi + 1) \div 2>>, b), r) <= 0
         THEN DivDigit(r, b, (lo + hi + 1) \div 2, hi)
         ELSE DivDigit(r, b, lo, (lo + hi + 1) \div 2 - 1)

\* the quotient rest.q with the limb d put above it
PutDigit(rest, d) == [q |-> Append(rest.q, d), r |-> rest.r]

RECURSIVE LongDiv(_, _, _, _)
\* the partial remainder r1 holds d times b: on with r1 - d * b
LongDivDigit(a, b, i, r1, d) ==
    PutDigit(LongDiv(a, b, i - 1, IF d = 0 THEN r1 ELSE NatSub(r1, NatMul(<<d>>, b))), d)

LongDivStep(a, b, i, r1) ==
    LongDivDigit(a, b, i, r1, IF NatCmp(r1, b) < 0 THEN 0 ELSE DivDigit(r1, b, 1, BASE - 1))

\* schoolbook division of the limbs i, i-1, .. 1 of a, r the remainder so far
LongDiv(a, b, i, r) ==
    IF i = 0 THEN [q |-> <<>>, r |-> r]
    ELSE LongDivStep(a, b, i, Strip(<<a[i]>> \o r))

StripQuotient(res) == [q |-> Strip(res.q), r |-> res.r]

\* quotient and remainder of a by b > 0: the limbs of a above the first
\* quotient limb are the first partial remainder
NatDivMod(a, b) ==
    IF Len(a) < Len(b) THEN [q |-> <<>>, r |-> a]
    ELSE StripQuotient(LongDiv(a, b, Len(a) - Len(b) + 1,
                               SubSeq(a, Len(a) - Len(b) + 2, Len(a))))

\* the integer nearest to q + r / den, a tie going to the even one; half is
\* -1, 0 or 1 as r / den is below, at or above one half
RoundHalfEven(neg, q, half) ==
    IF half > 0 \/ (half = 0 /\ Limb(q, 1) % 2 = 1)
    THEN RatMk(IntMk(neg, NatAdd(q, <<1>>)), <<1>>)
    ELSE RatMk(IntMk(neg, q), <<1>>)

RoundQuotient(neg, dm, den) ==
    RoundHalfEven(neg, dm.q, NatCmp(NatAdd(dm.r, dm.r), den))

\* the integer nearest to a, a tie going to the even one
RatRound(a) == RoundQuotient(a.num.neg, NatDivMod(a.num.mag, a.den), a.den)

\* v to `digits` decimal places, as fixed-point text '{:.<digits>f}' renders it
FormatFixed(v, digits) ==
    LET scale == IF digits = 2 THEN <<100>> ELSE <<0, 0, 1>>
    IN  RatMk(RatRound(RatMul(v, RatMk(IntMk(FALSE, scale), <<1>>))).num, scale)

(***************************************************************************)
(* Module constants (lines 6-8) and the controller gain (line 55).         *)
(***************************************************************************)
c_air == 1000

l_vap == 2496000

\* a gain of 1e8
KtWeak == RatMk(IntMk(FALSE, <<0, 0, 100>>), <<1>>)

\* 1e10 = 10 * 1000^3
Kt == RatMk(IntMk(FALSE, <<0, 0, 0, 10>>), <<1>>)

Kw == RatMk(IntMk(FALSE, <<0, 0, 0, 10>>), <<1>>)

(***************************************************************************)
(* The arguments of a call: one scenario and, around it, the same with no  *)
(* recirculation (alpha = 1), with alpha = 0, with theta_ext = thetaIsp    *)
(* and with no fresh air (m_fresh = 0).                                    *)
(***************************************************************************)
Scenario ==
    [m_fresh |-> RatOf(1), alpha |-> Frac(1, 2), thetaS |-> RatOf(18),
     thetaIsp |-> RatOf(24), phiIsp |-> Frac(1, 2), theta_turb |-> RatOf(5),
     phi_turb |-> Frac(9, 10), theta_ext |-> RatOf(35), Qsa |-> RatOf(500),
     Qla |-> RatOf(200)]

Args ==
    { Scenario,
      [Scenario EXCEPT !.alpha = RatOf(1)],
      [Scenario EXCEPT !.alpha = RatOf(0)],
      [Scenario EXCEPT !.theta_ext = Scenario.thetaIsp],
      [Scenario EXCEPT !.m_fresh = RatOf(0)] }

(***************************************************************************)
(* psychro, the imported collaborator: psy.w(theta, phi) is any function   *)
(* of its two arguments.  Two are tried: humidity ratios near those of     *)
(* sea-level air, and the same rounded to a whole g/kg.                    *)
(***************************************************************************)
PsyModels ==
    { (<<RatOf(5), Frac(9, 10)>> :> Frac(4851, 1000000)) @@
      (<<RatOf(24), Frac(1, 2)>> :> Frac(9284, 1000000)),
      (<<RatOf(5), Frac(9, 10)>> :> Frac(5, 1000)) @@
      (<<RatOf(24), Frac(1, 2)>> :> Frac(9, 1000)) }

(***************************************************************************)
(* Lines 49-57: the derived scalars, for alpha # 0, theta_ext # thetaIsp.  *)
(***************************************************************************)
Derived(a, cc, psy) ==
    LET m   == RatDiv(a.m_fresh, a.alpha)
        QsZ == RatMul(RatMul(RatNeg(m), cc), RatSub(a.thetaS, a.thetaIsp))
        UA  == RatDiv(RatSub(QsZ, a.Qsa), RatSub(a.theta_ext, a.thetaIsp))
    IN  [m |-> m, QsZ |-> QsZ, UA |-> UA, Kt |-> Kt, Kw |-> Kw,
         w_turb |-> psy[<<a.theta_turb, a.phi_turb>>],
         wIsp |-> psy[<<a.thetaIsp, a.phiIsp>>]]

(***************************************************************************)
(* Lines 60-80: the coefficients A and the inputs b.                       *)
(***************************************************************************)
np_zeros2(n, k) == [i \in 0..(n - 1) |-> [j \in 0..(k - 1) |-> RatOf(0)]]

np_zeros(n) == [i \in 0..(n - 1) |-> RatOf(0)]

\* MX_A with the fresh-air share alpha weighing the recirculated air too
MX_A_FreshShare(A, a, d, cc, ll) ==
    LET rec == RatNeg(a.alpha)
    IN  [A EXCEPT ![0][0] = RatMul(d.m, cc), ![0][6] = RatMul(RatMul(rec, d.m), cc),
                  ![1][1] = RatMul(d.m, ll), ![1][7] = RatMul(RatMul(rec, d.m), ll)]

\* lines 62-64, MX mixing box
MX_A(A, a, d, cc, ll) ==
    LET rec == RatNeg(RatSub(RatOf(1), a.alpha))
    IN  [A EXCEPT ![0][0] = RatMul(d.m, cc), ![0][6] = RatMul(RatMul(rec, d.m), cc),
                  ![1][1] = RatMul(d.m, ll), ![1][7] = RatMul(RatMul(rec, d.m), ll)]

\* HC_A with the humidifier's duty entered in the coil's moisture row
HC_A_Latent(A, d, cc, ll) ==
    [A EXCEPT ![2][0] = RatMul(d.m, cc), ![2][2] = RatMul(RatNeg(d.m), cc),
              ![2][8] = RatOf(1),
              ![3][1] = RatMul(d.m, ll), ![3][3] = RatMul(RatNeg(d.m), ll),
              ![3][9] = RatOf(1)]

\* lines 65-67, HC heating coil
HC_A(A, d, cc, ll) ==
    [A EXCEPT ![2][0] = RatMul(d.m, cc), ![2][2] = RatMul(RatNeg(d.m), cc),
              ![2][8] = RatOf(1),
              ![3][1] = RatMul(d.m, ll), ![3][3] = RatMul(RatNeg(d.m), ll)]

\* lines 68-70, VH vapor humidifier
VH_A(A, d, cc, ll) ==
    [A EXCEPT ![4][2] = RatMul(d.m, cc), ![4][4] = RatMul(RatNeg(d.m), cc),
              ![5][3] = RatMul(d.m, ll), ![5][5] = RatMul(RatNeg(d.m), ll),
              ![5][9] = RatOf(1)]

\* lines 71-73, TZ thermal zone
TZ_A(A, d, cc, ll) ==
    [A EXCEPT ![6][4] = RatMul(d.m, cc), ![6][6] = RatMul(RatNeg(d.m), cc),
              ![6][10] = RatOf(1),
              ![7][5] = RatMul(d.m, ll), ![7][7] = RatMul(RatNeg(d.m), ll),
              ![7][11] = RatOf(1)]

\* lines 74-76, BL building
BL_A(A, d) ==
    [A EXCEPT ![8][6] = d.UA, ![8][10] = RatOf(1),
              ![9][7] = RatOf(0), ![9][11] = RatOf(1)]

\* lines 77-80, the indoor temperature and humidity controllers
Ctl_A(A, d) ==
    [A EXCEPT ![10][6] = d.Kt, ![10][8] = RatOf(1),
              ![11][7] = d.Kw, ![11][9] = RatOf(1)]

AssembleA(a, d, cc, ll) ==
    Ctl_A(BL_A(TZ_A(VH_A(HC_A(MX_A(np_zeros2(12, 12), a, d, cc, ll),
                              d, cc, ll), d, cc, ll), d, cc, ll), d), d)

Assembleb(a, d, cc, ll) ==
    [np_zeros(12) EXCEPT
       ![0] = RatMul(RatMul(RatMul(a.alpha, d.m), cc), a.theta_turb),
       ![1] = RatMul(RatMul(RatMul(a.alpha, d.m), ll), d.w_turb),
       ![2] = RatOf(0), ![3] = RatOf(0), ![4] = RatOf(0), ![5] = RatOf(0),
       ![6] = RatOf(0), ![7] = RatOf(0),
       ![8] = RatAdd(RatMul(d.UA, a.theta_ext), a.Qsa),
       ![9] = a.Qla,
       ![10] = RatMul(d.Kt, a.thetaIsp),
       ![11] = RatMul(d.Kw, d.wIsp)]

(***************************************************************************)
(* Line 83, numpy.linalg.solve: the exact solution of A x = b by Cramer's  *)
(* rule on the rows scaled to integers, or LinAlgError when det A = 0.     *)
(* The determinants are the maximal minors of [A | b], built row by row.   *)
(***************************************************************************)
Aug(A, b, i, j) == IF j = Cardinality(DOMAIN b) THEN b[i] ELSE A[i][j]

RECURSIVE DenProd(_, _, _, _, _)
\* the product of the denominators of row i of [A | b] from column j on,
\* column `skip` left out
DenProd(A, b, i, j, skip) ==
    IF j > Cardinality(DOMAIN b) THEN <<1>>
    ELSE LET dn == IF j = skip THEN <<1>> ELSE Aug(A, b, i, j).den
         IN  IF dn = <<1>> THEN DenProd(A, b, i, j + 1, skip)
             ELSE NatMul(dn, DenProd(A, b, i, j + 1, skip))

\* [A | b] with each row multiplied by the denominators of its entries
Scale(A, b) ==
    Tabulate([i \in DOMAIN b |-> Tabulate([j \in 0..Cardinality(DOMAIN b) |->
        IF RatIsZero(Aug(A, b, i, j)) THEN IntZero
        ELSE IntMul(Aug(A, b, i, j).num, IntMk(FALSE, DenProd(A, b, i, 0, j)))])])

RECURSIVE IntSum(_, _)
\* the sum of f[k] over k in S
IntSum(f, S) ==
    IF S = {} THEN IntZero
    ELSE LET k == CHOOSE k2 \in S : TRUE
         IN  IntAdd(f[k], IntSum(f, S \ {k}))

\* mp[S] being the determinant of rows 0..r-1 of M in the columns S, the
\* same for rows 0..r, by expansion along row r
MinorsStep(M, r, mp) ==
    LET nz   == {j \in DOMAIN M[r] : ~IntIsZero(M[r][j])}
        keys == UNION {{S \cup {j} : j \in nz \ S} : S \in DOMAIN mp}
        term(T, j) ==
            IF j \in T /\ (T \ {j}) \in DOMAIN mp
            THEN LET v == IntMul(M[r][j], mp[T \ {j}])
                 IN  IF Cardinality({k \in T : k > j}) % 2 = 1 THEN IntNeg(v) ELSE v
            ELSE IntZero
    IN  Tabulate([T \in keys |-> IntSum([j \in nz |-> term(T, j)], nz)])

RECURSIVE Minors(_, _, _)
\* the minors of the rows 0..r-1 of M, r rows still to come
Minors(M, r, mp) ==
    IF r = Cardinality(DOMAIN M) THEN mp
    ELSE Minors(M, r + 1, MinorsStep(M, r, mp))

\* the determinant of M without column j (M has one column more than rows)
MinorWithout(M, mp, j) ==
    LET S == DOMAIN M[0] \ {j}
    IN  IF S \in DOMAIN mp THEN mp[S] ELSE IntZero

LinAlgError == [type |-> "LinAlgError", args |-> <<"Singular matrix">>]

np_linalg_solve(A, b) ==
    LET n      == Cardinality(DOMAIN b)
        M      == Scale(A, b)
        mp     == Minors(M, 0, ({} :> IntOf(1)))
        D      == MinorWithout(M, mp, n)
        \* b stands in column i: n - 1 - i columns are between the two
        Num(i) == IF (n - 1 - i) % 2 = 1 THEN IntNeg(MinorWithout(M, mp, i))
                  ELSE MinorWithout(M, mp, i)
    IN  IF IntIsZero(D) THEN [ok |-> FALSE, exc |-> LinAlgError]
        ELSE [ok |-> TRUE,
              x  |-> Tabulate([i \in DOMAIN b |->
                        RatMk(IF D.neg THEN IntNeg(Num(i)) ELSE Num(i), D.mag)])]

\* whether det A = 0
IsSingular(A) ==
    LET n == Cardinality(DOMAIN A)
        M == Scale(A, np_zeros(n))
    IN  IntIsZero(MinorWithout(M, Minors(M, 0, ({} :> IntOf(1))), n))

(***************************************************************************)
(* Every linear system the arguments above can assemble, solved once: TLC  *)
(* evaluates a constant definition a single time.                          *)
(***************************************************************************)
LinearSystem(a, cc, ll, psy) ==
    [A |-> AssembleA(a, Derived(a, cc, psy), cc, ll),
     b |-> Assembleb(a, Derived(a, cc, psy), cc, ll)]

Systems ==
    { LinearSystem(ap[1], RatOf(c_air), RatOf(l_vap), ap[2]) :
        ap \in { q \in Args \X PsyModels :
                   /\ ~RatIsZero(q[1].alpha)
                   /\ ~RatEq(q[1].theta_ext, q[1].thetaIsp) } }

solve_memo == Tabulate([s \in Systems |-> np_linalg_solve(s.A, s.b)])

Solve(A, b) == solve_memo[[A |-> A, b |-> b]]

(***************************************************************************)
(* The state.  c, l and float_format (pandas.options.display.float_format) *)
(* are process-wide; psy_w is the collaborator; pc, args, loc and events   *)
(* are the call in progress: the statement it is at, its arguments, its    *)
(* local names and what it has rendered and printed so far; hist keeps, of *)
(* every call that has ended, the arguments, the events, the vector it     *)
(* returned or the exception it raised.                                    *)
(***************************************************************************)
VARIABLES c, l, float_format, psy_w, pc, args, loc, events, hist

vars == <<c, l, float_format, psy_w, pc, args, loc, events, hist>>

MaxCalls == 2

NoExc == [type |-> "none", args |-> <<>>]

ZeroDivisionError == [type |-> "ZeroDivisionError", args |-> <<"division by zero">>]

Fmt2f == "{:,.2f}"

\* how a frame's float prints under pandas.options.display.float_format
FrameRepr(v, ff) == IF ff = Fmt2f THEN FormatFixed(v, 2) ELSE FormatFixed(v, 6)

Init ==
    /\ c = RatOf(c_air)
    /\ l = RatOf(l_vap)
    /\ float_format = "None"
    /\ psy_w \in PsyModels
    /\ pc = "idle"
    /\ args = <<>>
    /\ loc = <<>>
    /\ events = <<>>
    /\ hist = <<>>

\* line 10: ModelECS is called
Call(a) ==
    /\ pc = "idle"
    /\ Len(hist) < MaxCalls
    /\ pc' = "derive"
    /\ args' = a
    /\ loc' = <<>>
    /\ events' = <<>>
    /\ UNCHANGED <<c, l, float_format, psy_w, hist>>

\* Raise with the exception reported on the console before it leaves
RaiseLogged(exc) ==
    /\ hist' = Append(hist, [args |-> args,
                             events |-> Append(events, [op |-> "print", args |-> <<exc.type>>]),
                             result |-> <<>>, exc |-> exc])
    /\ pc' = "idle"
    /\ args' = <<>>
    /\ loc' = <<>>
    /\ events' = <<>>

\* an exception leaves ModelECS: nothing in it catches one
Raise(exc) ==
    /\ hist' = Append(hist, [args |-> args, events |-> events,
                             result |-> <<>>, exc |-> exc])
    /\ pc' = "idle"
    /\ args' = <<>>
    /\ loc' = <<>>
    /\ events' = <<>>

\* lines 49-57
Derive ==
    /\ pc = "derive"
    /\ IF RatIsZero(args.alpha) \/ RatEq(args.theta_ext, args.thetaIsp)
       THEN Raise(ZeroDivisionError)
       ELSE /\ loc' = Derived(args, c, psy_w)
            /\ pc' = "assemble"
            /\ UNCHANGED <<args, events, hist>>
    /\ UNCHANGED <<c, l, float_format, psy_w>>

\* lines 60-80
Assemble ==
    /\ pc = "assemble"
    /\ loc' = [A |-> AssembleA(args, loc, c, l),
               b |-> Assembleb(args, loc, c, l)] @@ loc
    /\ pc' = "solve"
    /\ UNCHANGED <<c, l, float_format, psy_w, args, events, hist>>

\* Solved with x rounded as the process-wide display option says
SolvedDisplayed(res) ==
    IF res.ok
    THEN /\ loc' = [x |-> [k \in DOMAIN res.x |-> FrameRepr(res.x[k], float_format)]] @@ loc
         /\ pc' = "chart"
         /\ UNCHANGED <<args, events, hist>>
    ELSE Raise(res.exc)

\* Solved with the solver's exception caught and a zero vector in its place
SolvedOrZeros(res) ==
    /\ loc' = [x |-> IF res.ok THEN res.x ELSE np_zeros(12)] @@ loc
    /\ pc' = "chart"
    /\ UNCHANGED <<args, events, hist>>

\* line 83: x is bound to the solution, or the solver's exception leaves
Solved(res) ==
    IF res.ok
    THEN /\ loc' = [x |-> res.x] @@ loc
         /\ pc' = "chart"
         /\ UNCHANGED <<args, events, hist>>
    ELSE Raise(res.exc)

SolveStep ==
    /\ pc = "solve"
    /\ Solved(Solve(loc.A, loc.b))
    /\ UNCHANGED <<c, l, float_format, psy_w>>

\* x[start:stop:step], as a sequence
Slice(x, start, stop, step) ==
    [k \in 1..((stop - start + step - 1) \div step) |-> x[start + (k - 1) * step]]

\* Incidence with the recirculation closing on the zone segment
IncidenceZoneClosure ==
    << <<-1, 1, 0, 0, 0>>,
       <<0, -1, 1, 0, 0>>,
       <<0, 0, -1, 1, 0>>,
       <<0, 1, 0, -1, 1>> >>

\* lines 85-88: the segments MX, HC, VH, TZ over the five points
Incidence ==
    << <<-1, 1, 0, 0, -1>>,
       <<0, -1, 1, 0, 0>>,
       <<0, 0, -1, 1, 0>>,
       <<0, 0, 0, -1, 1>> >>

\* lines 85-92
Chart ==
    /\ pc = "chart"
    /\ LET t == <<args.theta_turb>> \o Slice(loc.x, 0, 8, 2)
           w == <<loc.w_turb>> \o Slice(loc.x, 1, 8, 2)
       IN  /\ loc' = [t |-> t, w |-> w] @@ [loc EXCEPT !.A = Incidence]
           /\ events' = Append(events, [op |-> "psy.chartA", t |-> t, w |-> w,
                                        A |-> Incidence])
    /\ pc' = "print_points"
    /\ UNCHANGED <<c, l, float_format, psy_w, args, hist>>

\* PrintPoints with w a view of x scaled in place (w = x[1:8:2]; w *= 1000)
PrintPointsInPlace ==
    /\ pc = "print_points"
    /\ LET w      == [k \in DOMAIN loc.w |-> RatMul(RatOf(1000), loc.w[k])]
           P      == [theta |-> loc.t, w |-> w]
           output == [theta |-> [k \in DOMAIN P.theta |-> FormatFixed(P.theta[k], 2)],
                      w     |-> [k \in DOMAIN P.w |-> FormatFixed(P.w[k], 2)]]
       IN  /\ loc' = [P |-> P, output |-> output] @@
                     [loc EXCEPT !.w = w,
                                 !.x = [k \in DOMAIN loc.x |->
                                          IF k < 8 /\ k % 2 = 1
                                          THEN RatMul(RatOf(1000), loc.x[k])
                                          ELSE loc.x[k]]]
           /\ events' = events \o << [op |-> "print", args |-> <<>>],
                                     [op |-> "print", args |-> <<output>>] >>
    /\ pc' = "print_duties"
    /\ UNCHANGED <<c, l, float_format, psy_w, args, hist>>

\* lines 94-104: the table of the points, w in g/kg, both to two decimals
PrintPoints ==
    /\ pc = "print_points"
    /\ LET w      == [k \in DOMAIN loc.w |-> RatMul(RatOf(1000), loc.w[k])]
           P      == [theta |-> loc.t, w |-> w]
           output == [theta |-> [k \in DOMAIN P.theta |-> FormatFixed(P.theta[k], 2)],
                      w     |-> [k \in DOMAIN P.w |-> FormatFixed(P.w[k], 2)]]
       IN  /\ loc' = [P |-> P, output |-> output] @@ [loc EXCEPT !.w = w]
           /\ events' = events \o << [op |-> "print", args |-> <<>>],
                                     [op |-> "print", args |-> <<output>>] >>
    /\ pc' = "print_duties"
    /\ UNCHANGED <<c, l, float_format, psy_w, args, hist>>

\* PrintDuties with Q a view of x scaled in place (Q = x[8:]; Q /= 1000)
PrintDutiesInPlace ==
    /\ pc = "print_duties"
    /\ float_format' = Fmt2f
    /\ LET Q  == [QsHC |-> loc.x[8], QlVH |-> loc.x[9],
                  QsTZ |-> loc.x[10], QlTZ |-> loc.x[11]]
           kW == [k \in DOMAIN Q |->
                    FrameRepr(RatDiv(Q[k], RatOf(1000)), float_format')]
       IN  /\ loc' = [Q |-> Q] @@
                     [loc EXCEPT !.x = [k \in DOMAIN loc.x |->
                                          IF k >= 8 THEN RatDiv(loc.x[k], RatOf(1000))
                                          ELSE loc.x[k]]]
           /\ events' = events \o << [op |-> "print", args |-> <<>>],
                                     [op |-> "print", args |-> <<kW, "kW">>] >>
    /\ pc' = "print_UA"
    /\ UNCHANGED <<c, l, psy_w, args, hist>>

\* lines 106-109: the duties in kW, after the display option is set
PrintDuties ==
    /\ pc = "print_duties"
    /\ float_format' = Fmt2f
    /\ LET Q  == [QsHC |-> loc.x[8], QlVH |-> loc.x[9],
                  QsTZ |-> loc.x[10], QlTZ |-> loc.x[11]]
           kW == [k \in DOMAIN Q |->
                    FrameRepr(RatDiv(Q[k], RatOf(1000)), float_format')]
       IN  /\ loc' = [Q |-> Q] @@ loc
           /\ events' = events \o << [op |-> "print", args |-> <<>>],
                                     [op |-> "print", args |-> <<kW, "kW">>] >>
    /\ pc' = "print_UA"
    /\ UNCHANGED <<c, l, psy_w, args, hist>>

\* line 111
PrintUA ==
    /\ pc = "print_UA"
    /\ events' = Append(events, [op |-> "print", args |-> <<"UA:", RatRound(loc.UA)>>])
    /\ pc' = "return"
    /\ UNCHANGED <<c, l, float_format, psy_w, args, loc, hist>>

\* line 113
Return ==
    /\ pc = "return"
    /\ hist' = Append(hist, [args |-> args, events |-> events,
                             result |-> loc.x, exc |-> NoExc])
    /\ pc' = "idle"
    /\ args' = <<>>
    /\ loc' = <<>>
    /\ events' = <<>>
    /\ UNCHANGED <<c, l, float_format, psy_w>>

Next ==
    \/ \E a \in Args : Call(a)
    \/ Derive
    \/ Assemble
    \/ SolveStep
    \/ Chart
    \/ PrintPoints
    \/ PrintDuties
    \/ PrintUA
    \/ Return

Spec == Init /\ [][Next]_vars

(***************************************************************************)
(* The claims.  hist holds one entry for every call that has ended: its    *)
(* arguments, the chart and print events it made, and the vector it        *)
(* returned or the exception that left it.                                 *)
(***************************************************************************)
Completed == pc = "idle" /\ hist # <<>>

LastCall == hist[Len(hist)]

Returned(h) == h.exc = NoExc

\* 0 < alpha <= 1 and theta_ext # thetaIsp
Valid(a) ==
    /\ RatLt(RatOf(0), a.alpha)
    /\ ~RatLt(RatOf(1), a.alpha)
    /\ ~RatEq(a.theta_ext, a.thetaIsp)

\* the system lines 49-80 assemble from the arguments a
SystemOf(a) == LinearSystem(a, c, l, psy_w)

RECURSIVE RowSum(_, _, _)
\* row[j] * x[j] + ... + row[11] * x[11]
RowSum(row, x, j) ==
    IF j > 11 THEN RatOf(0)
    ELSE IF RatIsZero(row[j]) THEN RowSum(row, x, j + 1)
    ELSE RatAdd(RatMul(row[j], x[j]), RowSum(row, x, j + 1))

\* C1: the vector a call with valid arguments returns satisfies each of the
\* twelve assembled equations: row i of A times x equals b[i], exactly.
C1_ResidualZero ==
    (Completed /\ Returned(LastCall) /\ Valid(LastCall.args)) =>
        LET sys == SystemOf(LastCall.args)
        IN  \A i \in 0..11 : RatEq(RowSum(sys.A[i], LastCall.result, 0), sys.b[i])

C1_Witness ==
    /\ Completed /\ Returned(LastCall)
    /\ LastCall.args = Scenario
    /\ ~RatIsZero(LastCall.result[8])

\* C2: a call that fails (a division by zero at alpha = 0 or at
\* theta_ext = thetaIsp, or a failed solve) has rendered no chart, printed
\* nothing and returned no vector.
C2_FailsBeforeOutput ==
    \A i \in DOMAIN hist :
        ~Returned(hist[i]) => hist[i].events = <<>> /\ hist[i].result = <<>>

C2_Witness ==
    /\ \E i \in DOMAIN hist : hist[i].exc = ZeroDivisionError
    /\ \E i \in DOMAIN hist : hist[i].exc = LinAlgError

\* C3: the state of the process outside a call - the module constants c and
\* l, the pandas display float format - is what it was before any call.
C3_NoGlobalWrite ==
    /\ c = RatOf(c_air)
    /\ l = RatOf(l_vap)
    /\ float_format = "None"

TempDev(h) == RatAbs(RatSub(h.result[6], h.args.thetaIsp))

HumDev(h) ==
    RatAbs(RatSub(h.result[7], psy_w[<<h.args.thetaIsp, h.args.phiIsp>>]))

Epsilon == Frac(1, 1000000)

\* the duty at which a gain of 1e10 leaves a deviation of 1e-6
DutyLimit == RatOf(10000)

\* C6 as stated: the zone-exit state a call with valid arguments returns is
\* within 1e-6 of both setpoints.
C6_TracksSetpoints ==
    (Completed /\ Returned(LastCall) /\ Valid(LastCall.args)) =>
        RatLt(TempDev(LastCall), Epsilon) /\ RatLt(HumDev(LastCall), Epsilon)

\* C6: the zone-exit state a call with valid arguments returns misses each
\* setpoint by the duty over the gain, Kt (thetaIsp - x[6]) = x[8] and
\* Kw (wIsp - x[7]) = x[9]; a deviation is below 1e-6 exactly when the duty
\* is below 1e4 W in magnitude, as the coil duty of the nominal scenario is.
C6_DeviationIsDutyOverGain ==
    (Completed /\ Returned(LastCall) /\ Valid(LastCall.args)) =>
        LET h    == LastCall
            wIsp == psy_w[<<h.args.thetaIsp, h.args.phiIsp>>]
        IN  /\ RatEq(RatMul(Kt, RatSub(h.args.thetaIsp, h.result[6])), h.result[8])
            /\ RatEq(RatMul(Kw, RatSub(wIsp, h.result[7])), h.result[9])
            /\ RatLt(TempDev(h), Epsilon) <=> RatLt(RatAbs(h.result[8]), DutyLimit)
            /\ RatLt(HumDev(h), Epsilon) <=> RatLt(RatAbs(h.result[9]), DutyLimit)
            /\ h.args = Scenario => RatLt(TempDev(h), Epsilon)

C6_Witness ==
    /\ Completed /\ Returned(LastCall)
    /\ LastCall.args = Scenario
    /\ RatLt(TempDev(LastCall), Epsilon)
    /\ ~RatLt(HumDev(LastCall), Epsilon)

\* whether lines 49-53 divide without error on the arguments a
Derivable(a) == ~RatIsZero(a.alpha) /\ ~RatEq(a.theta_ext, a.thetaIsp)

\* the systems among Systems whose matrix has determinant zero
SingularSystems == {s \in Systems : IsSingular(s.A)}

\* C7 as stated: a call whose assembled matrix is non-invertible ends with a
\* "SingularSystem" error that carries the matrix, and returns no vector.
C7_SingularSystemError ==
    \A i \in DOMAIN hist :
        (Derivable(hist[i].args) /\ SystemOf(hist[i].args) \in SingularSystems) =>
            /\ hist[i].exc.type = "SingularSystem"
            /\ \E k \in DOMAIN hist[i].exc.args :
                   hist[i].exc.args[k] = SystemOf(hist[i].args).A
            /\ hist[i].result = <<>>

\* C7: a call whose assembled matrix is non-invertible - as it is when
\* m_fresh = 0 - ends with numpy's LinAlgError("Singular matrix"), which
\* carries the message only and not the matrix; it has charted nothing,
\* printed nothing and returned no vector, and no other call ends so.
C7_LinAlgErrorPropagates ==
    \A i \in DOMAIN hist :
        Derivable(hist[i].args) =>
            LET singular == SystemOf(hist[i].args) \in SingularSystems
            IN  /\ RatIsZero(hist[i].args.m_fresh) => singular
                /\ singular <=> hist[i].exc = LinAlgError
                /\ singular => hist[i].result = <<>> /\ hist[i].events = <<>>

C7_Witness ==
    \E i \in DOMAIN hist :
        /\ RatIsZero(hist[i].args.m_fresh)
        /\ hist[i].exc.type = "LinAlgError"
        /\ hist[i].exc.args = <<"Singular matrix">>

\* the chart renders of the call in progress and of the calls that ended
ChartEvents ==
    {events[k] : k \in {n \in DOMAIN events : events[n].op = "psy.chartA"}} \cup
    UNION {{hist[i].events[k] :
              k \in {n \in DOMAIN hist[i].events : hist[i].events[n].op = "psy.chartA"}} :
           i \in DOMAIN hist}

\* C8: every chart render is given the same 4 x 5 incidence: the mixing row
\* has -1 at the turbine node, +1 at s0 and -1 at the zone exit; rows 2, 3
\* and 4 have a single -1 at node k, a single +1 at node k + 1 and zeros.
C8_FixedIncidence ==
    \A e \in ChartEvents :
        /\ Len(e.A) = 4
        /\ \A r \in 1..4 : Len(e.A[r]) = 5
        /\ e.A[1] = <<-1, 1, 0, 0, -1>>
        /\ \A k \in 2..4 : \A j \in 1..5 :
               e.A[k][j] = IF j = k THEN -1 ELSE IF j = k + 1 THEN 1 ELSE 0

C8_Witness ==
    \E i, j \in DOMAIN hist :
        /\ hist[i].args # hist[j].args
        /\ Returned(hist[i]) /\ Returned(hist[j])
        /\ hist[i].events[1].op = "psy.chartA" /\ hist[j].events[1].op = "psy.chartA"

\* C9: nothing is charted or printed before the solve; a call that returns
\* has charted once, then printed a blank line, the table, a blank line, the
\* duties and UA, in that order; the chart got theta_turb, w_turb and the
\* solved x[0..7] unscaled, and the vector returned is the solver's.
C9_SolveChartPrintReturn ==
    /\ pc \in {"derive", "assemble", "solve", "chart"} => events = <<>>
    /\ (Completed /\ Returned(LastCall)) =>
           LET h   == LastCall
               x   == Solve(SystemOf(h.args).A, SystemOf(h.args).b).x
               ev  == h.events
           IN  /\ h.result = x
               /\ Len(ev) = 6
               /\ ev[1].op = "psy.chartA"
               /\ ev[1].t = <<h.args.theta_turb, x[0], x[2], x[4], x[6]>>
               /\ ev[1].w = <<psy_w[<<h.args.theta_turb, h.args.phi_turb>>],
                              x[1], x[3], x[5], x[7]>>
               /\ \A k \in 2..6 : ev[k].op = "print"
               /\ ev[2].args = <<>> /\ ev[4].args = <<>>
               /\ Len(ev[3].args) = 1
               /\ \A k \in 1..5 :
                      ev[3].args[1].w[k] =
                          FormatFixed(RatMul(RatOf(1000), ev[1].w[k]), 2)
               /\ Len(ev[5].args) = 2 /\ ev[5].args[2] = "kW"
               /\ ev[5].args[1].QsHC = FormatFixed(RatDiv(x[8], RatOf(1000)), 2)
               /\ Len(ev[6].args) = 2 /\ ev[6].args[1] = "UA:"

C9_Witness ==
    /\ Completed /\ Returned(LastCall)
    /\ LastCall.events[3].args[1].w[5] # FormatFixed(LastCall.events[1].w[5], 2)
    /\ LastCall.events[5].args[1].QsHC # FormatFixed(LastCall.result[8], 2)

\* C10: the coil duty x[8] has a coefficient in rows 2 and 10 only, the
\* humidifier duty x[9] in rows 5 and 11 only; in a vector returned for
\* valid arguments x[3] = x[1] and x[4] = x[2].
C10_SensibleCoilLatentHumidifier ==
    /\ pc = "solve" =>
           \A i \in 0..11 :
               /\ ~RatIsZero(loc.A[i][8]) <=> i \in {2, 10}
               /\ ~RatIsZero(loc.A[i][9]) <=> i \in {5, 11}
    /\ (Completed /\ Returned(LastCall) /\ Valid(LastCall.args)) =>
           /\ RatEq(LastCall.result[3], LastCall.result[1])
           /\ RatEq(LastCall.result[4], LastCall.result[2])

C10_Witness ==
    /\ Completed /\ Returned(LastCall) /\ Valid(LastCall.args)
    /\ ~RatEq(LastCall.result[2], LastCall.result[0])
    /\ ~RatEq(LastCall.result[5], LastCall.result[3])

====
